---- MODULE Spec2Model ----
(***************************************************************************)
(* Settlement engine of glix (src/services/payment.ts): initiateTransaction *)
(* and completeTransaction over the accounts, users and transactions       *)
(* collections.  Every await on the persistence layer is one step, so a    *)
(* call is a sequence of steps over a frame of local variables.            *)
(***************************************************************************)
EXTENDS Integers, Sequences, FiniteSets, TLC

VARIABLES accounts, users, transactions, depth, obj, call, log

vars == <<accounts, users, transactions, depth, obj, call, log>>

----------------------------------------------------------------------------
(* Universe of documents *)

None == "none"

\* "admin" is the user whose email is admin@glix.com
Users == {"admin", "alice", "bob"}

AdminEmailUser == "admin"

AccIds == {"a0", "a1", "a2", "a3", "a4"}

\* accounts.owner is required and never written by the engine
ownerOf(a) ==
    CASE a = "a0" -> "admin"
      [] a = "a1" -> "alice"
      [] a = "a2" -> "alice"
      [] OTHER    -> "bob"

\* order in which payload.find returns account documents
AccOrder == <<"a0", "a1", "a2", "a3", "a4">>

TxIds == {"t1", "t2"}

Statuses == {"requested", "pending", "rejected", "accepted"}

\* balance given to every account on create
CreateBalance == 1000

\* amounts a transaction document may carry
Amounts == {400, CreateBalance, CreateBalance + 1}

\* population shape of a transaction handed to the engine:
\*   ids      from and receiver are bare ids
\*   stripped from populated, receiver populated without preferredAccount
\*   depth1   from populated, receiver populated, preferredAccount a bare id
\*   depth2   from populated, receiver populated, preferredAccount populated
Depths == {"ids", "stripped", "depth1", "depth2"}

\* number of calls of the engine in one behaviour
MaxCalls == 3

\* number of calls that may be in flight at once
MaxFrames == 2

Frames == 1..MaxFrames

----------------------------------------------------------------------------
(* Relationship values: a bare id, a populated record, or nothing *)

NoRef == [k |-> "none", id |-> None, balance |-> 0]

IdRef(a) == [k |-> "id", id |-> a, balance |-> 0]

RecRef(a, b) == [k |-> "rec", id |-> a, balance |-> b]

NoUser == [k |-> "none", id |-> None, preferredAccount |-> NoRef]

UserId(u) == [k |-> "id", id |-> u, preferredAccount |-> NoRef]

UserRec(u, p) == [k |-> "rec", id |-> u, preferredAccount |-> p]

\* a relationship to accounts as the store returns it when populating
Populate(a) ==
    IF a = None THEN NoRef
    ELSE IF accounts[a].exists THEN RecRef(a, accounts[a].balance)
    ELSE IdRef(a)

\* findByID that never reports not found
FindAccountByID_Lenient(a) == [found |-> TRUE, doc |-> RecRef(a, accounts[a].balance)]

\* payload.findByID on accounts: the document, or not found
FindAccountByID(a) ==
    IF accounts[a].exists
    THEN [found |-> TRUE, doc |-> RecRef(a, accounts[a].balance)]
    ELSE [found |-> FALSE, doc |-> NoRef]

\* findByID on users that returns a bare record for a missing user
FindUserByID_Lenient(u) == [found |-> TRUE, doc |-> UserRec(u, NoRef)]

\* payload.findByID on users: the document at the default depth
FindUserByID(u) ==
    IF users[u].exists
    THEN [found |-> TRUE, doc |-> UserRec(u, Populate(users[u].preferredAccount))]
    ELSE [found |-> FALSE, doc |-> NoUser]

\* getInstance that fetches the account again even when handed a record
GetAccountInstance_Refetch(ref) ==
    IF ref.k = "none" THEN [found |-> TRUE, doc |-> ref]
    ELSE FindAccountByID(ref.id)

\* getInstance(maybeInstance, "accounts", payload)
GetAccountInstance(ref) ==
    IF ref.k = "id" THEN FindAccountByID(ref.id)
    ELSE [found |-> TRUE, doc |-> ref]

\* getInstance(maybeInstance, "users", payload)
GetUserInstance(ref) ==
    IF ref.k = "id" THEN FindUserByID(ref.id)
    ELSE [found |-> TRUE, doc |-> ref]

RECURSIVE OwnedFrom(_, _)
OwnedFrom(u, i) ==
    IF i > Len(AccOrder) THEN <<>>
    ELSE LET a == AccOrder[i]
         IN  IF accounts[a].exists /\ ownerOf(a) = u
             THEN <<RecRef(a, accounts[a].balance)>> \o OwnedFrom(u, i + 1)
             ELSE OwnedFrom(u, i + 1)

\* payload.find({collection: "accounts", where: {owner: {equals: u}}}).docs
FindAccountsByOwner(u) == OwnedFrom(u, 1)

\* the admin user taken to exist
FindAdminUsers_Assumed == <<AdminEmailUser>>

\* payload.find({collection: "users", where: {email: {equals: "admin@glix.com"}}}).docs
FindAdminUsers ==
    IF users[AdminEmailUser].exists THEN <<AdminEmailUser>> ELSE <<>>

\* a transaction document as its caller reads it at population shape d
ReadTransaction(t, d) ==
    LET doc == transactions[t]
        u   == doc.receiver
        rcv == IF d = "ids" \/ ~users[u].exists THEN UserId(u)
               ELSE IF d = "stripped" \/ users[u].preferredAccount = None
                    THEN UserRec(u, NoRef)
               ELSE IF d = "depth1" THEN UserRec(u, IdRef(users[u].preferredAccount))
               ELSE UserRec(u, Populate(users[u].preferredAccount))
    IN  [id       |-> t,
         from     |-> IF d = "ids" THEN IdRef(doc.from) ELSE Populate(doc.from),
         receiver |-> rcv,
         to       |-> IF d = "ids" /\ doc.to # None THEN IdRef(doc.to)
                      ELSE Populate(doc.to),
         amount   |-> doc.amount]

----------------------------------------------------------------------------
(* Frames: the local variables of one call *)

NoTx == [exists |-> FALSE, from |-> "a0", receiver |-> "admin", amount |-> 0,
         status |-> "requested", to |-> None]

NoObj == [id |-> None, from |-> NoRef, receiver |-> NoUser, to |-> NoRef, amount |-> 0]

NoStore == [accounts     |-> [a \in AccIds |-> [exists |-> FALSE, balance |-> 0]],
            transactions |-> [t \in TxIds |-> NoTx]]

IdleFrame ==
    [pc |-> "idle", op |-> "none", tx |-> None,
     from |-> NoRef, receiver |-> NoUser, receiverAccounts |-> <<>>,
     adminUser |-> None, adminAccount |-> NoRef, to |-> NoRef,
     writes |-> <<>>, given |-> NoObj, pre |-> NoStore]

Running(c) == call[c].pc # "idle"

NoneRunning == \A c \in Frames : ~Running(c)

CallsBegun == Len(log) + Cardinality({c \in Frames : Running(c)})

\* the call of frame c returns or throws: result is "ok" (status 200),
\* "rejected" (status 400) or "fatal" (an exception reaches the caller)
Finish(c, frame, result) ==
    /\ call' = [call EXCEPT ![c] = IdleFrame]
    /\ log' = Append(log, [frame |-> frame, result |-> result,
                           accounts |-> accounts', transactions |-> transactions',
                           obj |-> obj'[frame.tx]])

\* payload.update({collection: "accounts", id: a, data: {balance: b}})
UpdateBalance(a, b) == [accounts EXCEPT ![a].balance = b]

\* a status update that marks the transaction pending
UpdateStatus_Pending(t, s) == [transactions EXCEPT ![t].status = "pending"]

\* the status update left out
UpdateStatus_Skipped(t, s) == transactions

\* payload.update({collection: "transactions", id: t, data: {status: s}})
UpdateStatus(t, s) == [transactions EXCEPT ![t].status = s]

----------------------------------------------------------------------------
(* The caller *)

\* the caller reads the transaction document again
Reread(t) ==
    /\ transactions[t].exists
    /\ \A c \in Frames : call[c].tx # t
    /\ obj[t] # ReadTransaction(t, depth[t])
    /\ obj' = [obj EXCEPT ![t] = ReadTransaction(t, depth[t])]
    /\ UNCHANGED <<accounts, users, transactions, depth, call, log>>

\* a call of initiateTransaction or completeTransaction starts: getPayload
Start(c, op, t) ==
    /\ ~Running(c)
    /\ \A d \in Frames : d < c => Running(d)
    /\ transactions[t].exists
    /\ call' = [call EXCEPT ![c] =
                  [IdleFrame EXCEPT !.pc = IF op = "initiate" THEN "i_from" ELSE "c_to",
                                    !.op = op, !.tx = t, !.given = obj[t],
                                    !.pre = [accounts |-> accounts,
                                             transactions |-> transactions]]]
    /\ UNCHANGED <<accounts, users, transactions, depth, obj, log>>

\* a call among the MaxCalls calls of one behaviour
Begin(c, op, t) == CallsBegun < MaxCalls /\ Start(c, op, t)

\* a call by a caller that initiates every transaction once and completes it
\* once, after its initiation returned success, on the object that
\* initiation left
BeginOnce(c, op, t) ==
    /\ \A d \in Frames : call[d].tx # t
    /\ \A i \in DOMAIN log : log[i].frame.tx = t => log[i].frame.op # op
    /\ op = "complete" =>
         \E i \in DOMAIN log :
             log[i].frame.tx = t /\ log[i].frame.op = "initiate" /\ log[i].result = "ok"
    /\ Start(c, op, t)

----------------------------------------------------------------------------
(* initiateTransaction *)

\* the rejection test without the comparison of balance and amount
Rejects_Unfunded(from, amount, receiverAccounts) == Len(receiverAccounts) = 0

\* the rejection test with <= for <
Rejects_Inclusive(from, amount, receiverAccounts) ==
    from.balance <= amount \/ Len(receiverAccounts) = 0

\* the rejection test of initiateTransaction
Rejects(from, amount, receiverAccounts) ==
    from.balance < amount \/ Len(receiverAccounts) = 0

\* the destination chosen without looking at preferredAccount
ChooseTo_FirstOwned(receiver, receiverAccounts) == receiverAccounts[1]

\* the destination initiateTransaction assigns to transaction.to
ChooseTo(receiver, receiverAccounts) ==
    IF receiver.preferredAccount.k # "none"
    THEN receiver.preferredAccount
    ELSE receiverAccounts[1]

\* const from = await getInstance(transaction.from, "accounts", payload)
InitiateFrom(c) ==
    LET f == call[c]
        r == GetAccountInstance(obj[f.tx].from)
    IN  /\ f.pc = "i_from"
        /\ UNCHANGED <<accounts, users, transactions, depth, obj>>
        /\ IF r.found
           THEN /\ call' = [call EXCEPT ![c].from = r.doc, ![c].pc = "i_receiver"]
                /\ UNCHANGED log
           ELSE Finish(c, f, "fatal")

\* const receiver = await getInstance(transaction.receiver, "users", payload)
InitiateReceiver(c) ==
    LET f == call[c]
        r == GetUserInstance(obj[f.tx].receiver)
    IN  /\ f.pc = "i_receiver"
        /\ UNCHANGED <<accounts, users, transactions, depth, obj>>
        /\ IF r.found
           THEN /\ call' = [call EXCEPT ![c].receiver = r.doc, ![c].pc = "i_find"]
                /\ UNCHANGED log
           ELSE Finish(c, f, "fatal")

\* const receiverAccounts = (await payload.find({... owner: receiver.id})).docs
InitiateFindReceiverAccounts(c) ==
    LET f == call[c]
    IN  /\ f.pc = "i_find"
        /\ call' = [call EXCEPT ![c].receiverAccounts = FindAccountsByOwner(f.receiver.id),
                                ![c].pc = "i_decide"]
        /\ UNCHANGED <<accounts, users, transactions, depth, obj, log>>

\* the rejection branch, or else the choice of transaction.to and the
\* lookup of the admin user
InitiateDecide(c) ==
    LET f      == call[c]
        t      == f.tx
        admins == FindAdminUsers
        to     == ChooseTo(f.receiver, f.receiverAccounts)
    IN  /\ f.pc = "i_decide"
        /\ UNCHANGED <<accounts, users, depth>>
        /\ IF Rejects(f.from, obj[t].amount, f.receiverAccounts)
           THEN /\ transactions' = UpdateStatus(t, "rejected")
                /\ UNCHANGED obj
                /\ Finish(c, f, "rejected")
           ELSE /\ obj' = [obj EXCEPT ![t].to = to]
                /\ UNCHANGED transactions
                /\ IF Len(admins) = 0
                   THEN Finish(c, [f EXCEPT !.to = to], "fatal")
                   ELSE /\ call' = [call EXCEPT ![c].to = to,
                                                ![c].adminUser = admins[1],
                                                ![c].pc = "i_adminAccount"]
                        /\ UNCHANGED log

\* const adminAccount = (await payload.find({... owner: <admin user>.id})).docs[0]
InitiateFindAdminAccount(c) ==
    LET f    == call[c]
        docs == FindAccountsByOwner(f.adminUser)
    IN  /\ f.pc = "i_adminAccount"
        /\ call' = [call EXCEPT ![c].adminAccount = IF Len(docs) = 0 THEN NoRef ELSE docs[1],
                                ![c].pc = "i_credit"]
        /\ UNCHANGED <<accounts, users, transactions, depth, obj, log>>

\* the credit added to the stored balance at the time of the write
InitiateCreditValue_Stored(adminAccount, amount) ==
    accounts[adminAccount.id].balance + amount

\* a credit that leaves the admin account as it is
InitiateCreditValue_Kept(adminAccount, amount) == adminAccount.balance

\* balance written to the admin account by initiateTransaction
InitiateCreditValue(adminAccount, amount) == adminAccount.balance + amount

\* a debit that leaves the source as it is
InitiateDebitValue_Kept(from, amount) == from.balance

\* the debit taken from the stored balance at the time of the write
InitiateDebitValue_Stored(from, amount) == accounts[from.id].balance - amount

\* balance written to the source account by initiateTransaction
InitiateDebitValue(from, amount) == from.balance - amount

\* await payload.update(accounts, adminAccount.id, adminAccount.balance + amount)
InitiateCredit(c) ==
    LET f == call[c]
        b == InitiateCreditValue(f.adminAccount, obj[f.tx].amount)
    IN  /\ f.pc = "i_credit"
        /\ UNCHANGED <<users, transactions, depth, obj>>
        /\ IF f.adminAccount.k = "none"
           THEN /\ UNCHANGED accounts
                /\ Finish(c, f, "fatal")
           ELSE /\ accounts' = UpdateBalance(f.adminAccount.id, b)
                /\ call' = [call EXCEPT ![c].pc = "i_debit",
                                        ![c].writes = Append(f.writes, f.adminAccount.id)]
                /\ UNCHANGED log

\* await payload.update(accounts, from.id, from.balance - amount); status 200
InitiateDebit(c) ==
    LET f == call[c]
        b == InitiateDebitValue(f.from, obj[f.tx].amount)
    IN  /\ f.pc = "i_debit"
        /\ UNCHANGED <<users, transactions, depth, obj>>
        /\ accounts' = UpdateBalance(f.from.id, b)
        /\ Finish(c, [f EXCEPT !.writes = Append(f.writes, f.from.id)], "ok")

----------------------------------------------------------------------------
(* completeTransaction *)

\* the check of an absent target left out
TargetMissing_Unchecked(r) == ~r.found

\* findByID threw not-found, or if (!to) throw new Error("Target account not found")
TargetMissing(r) == ~r.found \/ r.doc.k = "none"

\* const to = await getInstance(transaction.to, "accounts", payload)
CompleteTo(c) ==
    LET f == call[c]
        r == GetAccountInstance(obj[f.tx].to)
    IN  /\ f.pc = "c_to"
        /\ UNCHANGED <<accounts, users, transactions, depth, obj>>
        /\ IF ~TargetMissing(r)
           THEN /\ call' = [call EXCEPT ![c].to = r.doc, ![c].pc = "c_adminUser"]
                /\ UNCHANGED log
           ELSE Finish(c, f, "fatal")

\* const adminUser = adminUserQuery.docs[0]; if (!adminUser) throw
CompleteFindAdminUser(c) ==
    LET f      == call[c]
        admins == FindAdminUsers
    IN  /\ f.pc = "c_adminUser"
        /\ UNCHANGED <<accounts, users, transactions, depth, obj>>
        /\ IF Len(admins) # 0
           THEN /\ call' = [call EXCEPT ![c].adminUser = admins[1],
                                        ![c].pc = "c_adminAccount"]
                /\ UNCHANGED log
           ELSE Finish(c, f, "fatal")

\* const adminAccount = adminAccountQuery.docs[0]; if (!adminAccount) throw
CompleteFindAdminAccount(c) ==
    LET f    == call[c]
        docs == FindAccountsByOwner(f.adminUser)
    IN  /\ f.pc = "c_adminAccount"
        /\ UNCHANGED <<accounts, users, transactions, depth, obj>>
        /\ IF Len(docs) # 0
           THEN /\ call' = [call EXCEPT ![c].adminAccount = docs[1], ![c].pc = "c_debit"]
                /\ UNCHANGED log
           ELSE Finish(c, f, "fatal")

\* a debit that leaves the admin account as it is
CompleteDebitValue_Kept(adminAccount, amount) == adminAccount.balance

\* balance written to the admin account by completeTransaction
CompleteDebitValue(adminAccount, amount) == adminAccount.balance - amount

\* a credit that leaves the destination as it is
CompleteCreditValue_Kept(to, amount) == to.balance

\* balance written to the destination account by completeTransaction
CompleteCreditValue(to, amount) == to.balance + amount

\* await payload.update(accounts, adminAccount.id, adminAccount.balance - amount)
CompleteDebit(c) ==
    LET f == call[c]
        b == CompleteDebitValue(f.adminAccount, obj[f.tx].amount)
    IN  /\ f.pc = "c_debit"
        /\ accounts' = UpdateBalance(f.adminAccount.id, b)
        /\ call' = [call EXCEPT ![c].pc = "c_credit",
                                ![c].writes = Append(f.writes, f.adminAccount.id)]
        /\ UNCHANGED <<users, transactions, depth, obj, log>>

\* await payload.update(accounts, to.id, to.balance + amount); status 200
CompleteCredit(c) ==
    LET f == call[c]
        b == CompleteCreditValue(f.to, obj[f.tx].amount)
    IN  /\ f.pc = "c_credit"
        /\ UNCHANGED <<users, transactions, depth, obj>>
        /\ accounts' = UpdateBalance(f.to.id, b)
        /\ Finish(c, [f EXCEPT !.writes = Append(f.writes, f.to.id)], "ok")

----------------------------------------------------------------------------
(* Initial states: a seeded store with at most one missing document, one     *)
(* transaction document, and the object its caller read from it             *)

\* the accounts opened in the seeded store: bob has not opened a second one
SeedAccIds == AccIds \ {"a4"}

Faults ==
    {[kind |-> "none", id |-> None]}
    \cup {[kind |-> "user", id |-> u] : u \in Users}
    \cup {[kind |-> "account", id |-> a] : a \in SeedAccIds}

InitStore(fault, t, from, receiver, amount, pref) ==
    /\ accounts = [a \in AccIds |->
                     [exists  |-> a \in SeedAccIds
                                  /\ ~(fault.kind = "account" /\ fault.id = a),
                      balance |-> CreateBalance]]
    /\ users = [u \in Users |->
                  [exists           |-> ~(fault.kind = "user" /\ fault.id = u),
                   preferredAccount |-> IF u = receiver THEN pref ELSE None]]
    /\ transactions = [x \in TxIds |->
                         IF x = t
                         THEN [exists |-> TRUE, from |-> from, receiver |-> receiver,
                               amount |-> amount, status |-> "requested", to |-> None]
                         ELSE NoTx]

\* a missing user matters to the engine when it is the admin or the receiver,
\* a missing account when it is the admin's, the source, the preferredAccount
\* or one the receiver owns; the population shapes differ only when the
\* receiver has a preferredAccount
Init ==
    /\ \E fault \in Faults, from \in SeedAccIds, receiver \in Users,
          amount \in Amounts, pref \in SeedAccIds \cup {None} :
            /\ fault.kind = "user" => fault.id \in {AdminEmailUser, receiver}
            /\ fault.kind = "account" =>
                 \/ fault.id \in {from, pref}
                 \/ ownerOf(fault.id) \in {AdminEmailUser, receiver}
            /\ InitStore(fault, "t1", from, receiver, amount, pref)
    /\ depth \in [TxIds -> Depths]
    /\ \A t \in TxIds :
         /\ ~transactions[t].exists => depth[t] = "ids"
         /\ users[transactions[t].receiver].preferredAccount = None
              => depth[t] \in {"ids", "stripped"}
    /\ obj = [t \in TxIds |->
                IF transactions[t].exists THEN ReadTransaction(t, depth[t]) ELSE NoObj]
    /\ call = [c \in Frames |-> IdleFrame]
    /\ log = <<>>

Step(c) ==
    \/ InitiateFrom(c)
    \/ InitiateReceiver(c)
    \/ InitiateFindReceiverAccounts(c)
    \/ InitiateDecide(c)
    \/ InitiateFindAdminAccount(c)
    \/ InitiateCredit(c)
    \/ InitiateDebit(c)
    \/ CompleteTo(c)
    \/ CompleteFindAdminUser(c)
    \/ CompleteFindAdminAccount(c)
    \/ CompleteDebit(c)
    \/ CompleteCredit(c)

\* calls run one at a time
Next ==
    \/ \E t \in TxIds : Reread(t)
    \/ \E c \in Frames, op \in {"initiate", "complete"}, t \in TxIds :
         NoneRunning /\ Begin(c, op, t)
    \/ \E c \in Frames : Step(c)

Spec == Init /\ [][Next]_vars

----------------------------------------------------------------------------
(* Calls in flight together: a store with no document missing, alice        *)
(* preferring her second account, and two transaction documents, each       *)
(* initiated once and completed once                                        *)

\* the receiver of a transaction is not its sender
Counterparty(u) == IF u = "alice" THEN "bob" ELSE "alice"

ConcSources == {"a1", "a2", "a4"}

ConcAmounts == {400, CreateBalance}

ConcDepths == {"ids", "stripped"}

\* two transfers in a store where the admin account holds adminBalance and
\* the transaction documents carry amounts of the set amounts
InitTransfers(adminBalance, amounts) ==
    /\ accounts = [a \in AccIds |->
                     [exists |-> TRUE,
                      balance |-> IF ownerOf(a) = AdminEmailUser THEN adminBalance
                                  ELSE CreateBalance]]
    /\ users = [u \in Users |->
                  [exists |-> TRUE,
                   preferredAccount |-> IF u = "alice" THEN "a2" ELSE None]]
    /\ \E from \in [TxIds -> ConcSources], amount \in [TxIds -> amounts] :
            /\ from["t1"] = "a1"
            /\ transactions = [t \in TxIds |->
                                 [exists |-> TRUE, from |-> from[t],
                                  receiver |-> Counterparty(ownerOf(from[t])),
                                  amount |-> amount[t], status |-> "requested",
                                  to |-> None]]
    /\ \E d \in ConcDepths : depth = [t \in TxIds |-> d]
    /\ obj = [t \in TxIds |-> ReadTransaction(t, depth[t])]
    /\ call = [c \in Frames |-> IdleFrame]
    /\ log = <<>>

InitConc == InitTransfers(CreateBalance, ConcAmounts)

\* calls of different transactions interleave at every await
NextConc ==
    \/ \E c \in Frames, op \in {"initiate", "complete"}, t \in TxIds : BeginOnce(c, op, t)
    \/ \E c \in Frames : Step(c)

SpecConc == InitConc /\ [][NextConc]_vars

\* the admin account holds nothing when the transfers begin: balance is a
\* plain number field that the store lets be updated to any value
InitSpent == InitTransfers(0, ConcAmounts)

SpecSpent == InitSpent /\ [][NextConc]_vars

----------------------------------------------------------------------------
(* Calls that end between two awaits: no try/catch and no transaction of   *)
(* the store surrounds the awaits of a call, so when one of them rejects,  *)
(* or the caller's request is cut off, the call ends where it stands and   *)
(* what it has written stays written                                       *)

StoreFails(c) ==
    /\ Running(c)
    /\ UNCHANGED <<accounts, users, transactions, depth, obj>>
    /\ Finish(c, call[c], "aborted")

\* calls run one at a time and may end at any await
NextAbort ==
    \/ \E c \in Frames, op \in {"initiate", "complete"}, t \in TxIds :
         NoneRunning /\ BeginOnce(c, op, t)
    \/ \E c \in Frames : Step(c)
    \/ \E c \in Frames : StoreFails(c)

SpecAbort == InitConc /\ [][NextAbort]_vars

----------------------------------------------------------------------------
(* Two transfers whose calls run one at a time, in any order of stages *)

NextSeq ==
    \/ \E c \in Frames, op \in {"initiate", "complete"}, t \in TxIds :
         NoneRunning /\ BeginOnce(c, op, t)
    \/ \E c \in Frames : Step(c)

SpecSeq == InitConc /\ [][NextSeq]_vars

\* amount is a plain number field: the store accepts zero and negative values
SignedAmounts == {0 - 400, 0, 400}

InitSigned == InitTransfers(CreateBalance, SignedAmounts)

SpecSigned == InitSigned /\ [][NextSeq]_vars

----------------------------------------------------------------------------
(* Finished calls *)

Entries == {log[i] : i \in DOMAIN log}

Initiations == {e \in Entries : e.frame.op = "initiate"}

Completions == {e \in Entries : e.frame.op = "complete"}

Amount(e) == e.frame.given.amount

Pre(e) == e.frame.pre.accounts

Post(e) == e.accounts

Source(e) == e.frame.given.from.id

\* the account of the admin user
Clearing == CHOOSE a \in AccIds : ownerOf(a) = AdminEmailUser

ClearingMissing(e) == ~users[AdminEmailUser].exists \/ ~Pre(e)[Clearing].exists

StoreUntouched(e) ==
    /\ Post(e) = Pre(e)
    /\ e.transactions = e.frame.pre.transactions

\* the source and the receiver of an initiation can be resolved
SourceResolvable(e) ==
    e.frame.given.from.k = "id" => Pre(e)[e.frame.given.from.id].exists

ReceiverResolvable(e) ==
    e.frame.given.receiver.k = "id" => users[e.frame.given.receiver.id].exists

\* the balance of the source as the call resolves it
SourceBalance(e) ==
    IF e.frame.given.from.k = "id"
    THEN Pre(e)[e.frame.given.from.id].balance
    ELSE e.frame.given.from.balance

OwnedBy(e, u) == {a \in AccIds : Pre(e)[a].exists /\ ownerOf(a) = u}

RejectionCase(e) ==
    \/ SourceBalance(e) < Amount(e)
    \/ OwnedBy(e, e.frame.given.receiver.id) = {}

Pos(a) == CHOOSE i \in 1..Len(AccOrder) : AccOrder[i] = a

\* the receiver's preferredAccount as the call resolves it
ResolvedPreference(e) ==
    IF e.frame.given.receiver.k = "id"
    THEN users[e.frame.given.receiver.id].preferredAccount
    ELSE e.frame.given.receiver.preferredAccount.id

----------------------------------------------------------------------------
(* Claims *)

\* C1: every initiation that returns success leaves the clearing account at
\* its balance before plus amount, the source account at its balance before
\* minus amount, and every other account unchanged.  Stated for a source
\* that is not the clearing account: where the two are one account the two
\* equations cannot both hold.
C1_InitiationEffect ==
    \A e \in Initiations :
        e.result = "ok" /\ Source(e) # Clearing =>
            /\ Post(e)[Clearing].balance = Pre(e)[Clearing].balance + Amount(e)
            /\ Post(e)[Source(e)].balance = Pre(e)[Source(e)].balance - Amount(e)
            /\ \A a \in AccIds \ {Clearing, Source(e)} : Post(e)[a] = Pre(e)[a]

\* C2: every initiation that rejects changes no account balance and leaves
\* the stored transaction with status rejected.
C2_RejectionFrame ==
    \A e \in Initiations :
        e.result = "rejected" =>
            /\ Post(e) = Pre(e)
            /\ e.transactions[e.frame.tx].status = "rejected"

C2_Witness ==
    \E e \in Initiations :
        /\ e.result = "rejected"
        /\ e.frame.pre.transactions[e.frame.tx].status = "requested"

\* C3: an initiation whose source and receiver resolve rejects exactly when
\* the source balance is below amount or the receiver owns no account,
\* whatever the receiver's preferredAccount; otherwise it succeeds when the
\* clearing account can be found.
C3_RejectionTest ==
    \A e \in Initiations :
        SourceResolvable(e) /\ ReceiverResolvable(e) =>
            /\ e.result = "rejected" <=> RejectionCase(e)
            /\ ~RejectionCase(e) /\ ~ClearingMissing(e) => e.result = "ok"

C3_Witness ==
    /\ \E e \in Initiations : e.result = "ok" /\ Amount(e) = SourceBalance(e)
    /\ \E e \in Initiations : e.result = "rejected" /\ SourceBalance(e) < Amount(e)

\* C4: every completion that returns leaves the clearing account at its
\* balance before the call minus amount and the destination account at its
\* balance before the call plus amount.  Stated for a destination that is
\* neither the clearing account nor the source of the transaction.
C4_CompletionEffect ==
    \A e \in Completions :
        e.result = "ok" /\ e.frame.to.id \notin {Clearing, Source(e)} =>
            /\ Post(e)[Clearing].balance = Pre(e)[Clearing].balance - Amount(e)
            /\ Post(e)[e.frame.to.id].balance = Pre(e)[e.frame.to.id].balance + Amount(e)

\* C5: when an initiation succeeds and the completion of the same
\* transaction then runs on the object the initiation produced, the source
\* has lost amount, the destination has gained amount and the clearing
\* account is back at its value before the transfer.  Stated for source,
\* destination and clearing account being three different accounts.
C5_Conservation ==
    \A i \in DOMAIN log :
        (/\ i + 1 \in DOMAIN log
         /\ log[i].frame.op = "initiate" /\ log[i].result = "ok"
         /\ log[i + 1].frame.op = "complete" /\ log[i + 1].result = "ok"
         /\ log[i + 1].frame.tx = log[i].frame.tx
         /\ log[i + 1].frame.given = log[i].obj
         /\ Cardinality({Source(log[i]), log[i].frame.to.id, Clearing}) = 3)
        => LET before == Pre(log[i])
               after  == Post(log[i + 1])
               src    == Source(log[i])
               dst    == log[i].frame.to.id
               amount == Amount(log[i])
           IN  /\ after[src].balance = before[src].balance - amount
               /\ after[dst].balance = before[dst].balance + amount
               /\ after[Clearing].balance = before[Clearing].balance

\* C6: after a successful initiation the transaction document in the store
\* has to equal to the chosen destination account.
C6_ToStored ==
    \A e \in Initiations :
        e.result = "ok" => e.transactions[e.frame.tx].to = e.frame.to.id

C8_ClearingMissingFatal ==
    \A e \in Entries :
        ClearingMissing(e) => e.result = "fatal" /\ StoreUntouched(e)

\* C8 amended: when the clearing user or the clearing account is missing,
\* every completion fails with a fatal error and leaves the store as it was,
\* and so does every initiation except one that fails the rejection test,
\* which is rejected: its status is set and no balance changes.
C8_ClearingMissing ==
    \A e \in Entries :
        ClearingMissing(e) =>
            IF /\ e.frame.op = "initiate"
               /\ SourceResolvable(e) /\ ReceiverResolvable(e)
               /\ RejectionCase(e)
            THEN /\ e.result = "rejected"
                 /\ Post(e) = Pre(e)
                 /\ e.transactions[e.frame.tx].status = "rejected"
            ELSE e.result = "fatal" /\ StoreUntouched(e)

C8_Witness ==
    /\ \E e \in Initiations :
         /\ ClearingMissing(e) /\ ~users[AdminEmailUser].exists
         /\ SourceResolvable(e) /\ ReceiverResolvable(e) /\ ~RejectionCase(e)
         /\ e.result = "fatal"
    /\ \E e \in Completions :
         ClearingMissing(e) /\ e.frame.to.k = "rec" /\ e.result = "fatal"

\* C9: an initiation whose source account or receiver cannot be resolved
\* fails with a fatal error and writes nothing: no balance, no status.
C9_UnresolvedAborts ==
    \A e \in Initiations :
        ~SourceResolvable(e) \/ ~ReceiverResolvable(e) =>
            e.result = "fatal" /\ StoreUntouched(e)

C9_Witness ==
    \E e \in Initiations :
        ~SourceResolvable(e) /\ e.result = "fatal" /\ e.frame.pc = "i_from"

\* C10: a completion whose transaction has no to, or a to that does not
\* resolve, fails with a fatal error and leaves every balance as it was.
C10_NoTargetAborts ==
    \A e \in Completions :
        (\/ e.frame.given.to.k = "none"
         \/ e.frame.given.to.k = "id" /\ ~Pre(e)[e.frame.given.to.id].exists)
        => e.result = "fatal" /\ Post(e) = Pre(e)

C10_Witness ==
    /\ \E e \in Completions : e.frame.given.to.k = "none" /\ e.result = "fatal"
    /\ \E e \in Completions :
         /\ e.frame.given.to.k = "id"
         /\ ~Pre(e)[e.frame.given.to.id].exists
         /\ e.result = "fatal"

\* every completion, finished or running, is the only completion of its
\* transaction and began after an initiation of that transaction succeeded
CompletedOnceAfterInitiation ==
    /\ \A i \in DOMAIN log :
         log[i].frame.op = "complete" =>
           /\ \E j \in 1..(i - 1) :
                /\ log[j].frame.op = "initiate" /\ log[j].result = "ok"
                /\ log[j].frame.tx = log[i].frame.tx
           /\ \A j \in DOMAIN log \ {i} :
                log[j].frame.op = "complete" => log[j].frame.tx # log[i].frame.tx
    /\ \A c \in Frames :
         call[c].op = "complete" =>
           /\ \E e \in Initiations : e.result = "ok" /\ e.frame.tx = call[c].tx
           /\ \A e \in Completions : e.frame.tx # call[c].tx
           /\ \A d \in Frames \ {c} : call[d].op = "complete" => call[d].tx # call[c].tx

\* C11: starting from non-negative balances, with calls run one at a time on
\* positive amounts and every transaction completed at most once and only
\* after its initiation succeeded, no account balance is negative once the
\* calls made so far have returned.
C11_NonNegative ==
    NoneRunning /\ CompletedOnceAfterInitiation =>
        \A a \in AccIds : accounts[a].balance >= 0

\* pairs of successful initiations of two transactions, in the order they
\* returned
InitiationPairs ==
    {p \in (DOMAIN log) \X (DOMAIN log) :
        /\ p[1] < p[2]
        /\ log[p[1]].frame.op = "initiate" /\ log[p[1]].result = "ok"
        /\ log[p[2]].frame.op = "initiate" /\ log[p[2]].result = "ok"}

\* C12: with calls in flight together an initiation succeeds exactly when
\* the amount fits the source balance it read, whatever has been written
\* since; and of two successful initiations that read the same balance of
\* the same source, the one that returns last leaves the source at that
\* balance minus its own amount alone.
C12_CheckThenAct ==
    /\ \A e \in Initiations : e.result = "ok" <=> e.frame.from.balance >= Amount(e)
    /\ \A p \in InitiationPairs :
         LET e1 == log[p[1]]
             e2 == log[p[2]]
         IN  Source(e1) = Source(e2) /\ e1.frame.from.balance = e2.frame.from.balance
               => Post(e2)[Source(e2)].balance = e2.frame.from.balance - Amount(e2)

\* two initiations that each read the source by id both succeed with
\* amounts that together exceed what the source held
C12_Witness ==
    \E p \in InitiationPairs :
        LET e1 == log[p[1]]
            e2 == log[p[2]]
        IN  /\ Source(e1) = Source(e2)
            /\ e1.frame.given.from.k = "id" /\ e2.frame.given.from.k = "id"
            /\ e1.frame.from.balance = e2.frame.from.balance
            /\ Amount(e1) + Amount(e2) > e1.frame.from.balance
            /\ Post(e2)[Source(e2)].balance >= 0

\* C13: when initiateTransaction is called twice in sequence for one
\* transaction whose source is referenced by id and holds at least twice the
\* amount, and the first call succeeds, the second succeeds too, each call
\* writes the clearing account and then the source, the source ends at its
\* balance before the first call minus twice the amount, and the clearing
\* account, when it is not the source, at its balance plus twice the amount.
C13_InitiationTwice ==
    \A i \in DOMAIN log :
        (/\ i + 1 \in DOMAIN log
         /\ log[i].frame.op = "initiate" /\ log[i + 1].frame.op = "initiate"
         /\ log[i + 1].frame.tx = log[i].frame.tx
         /\ log[i].frame.given.from.k = "id" /\ log[i + 1].frame.given.from.k = "id"
         /\ Pre(log[i])[Source(log[i])].balance >= 2 * Amount(log[i])
         /\ log[i].result = "ok")
        => LET before == Pre(log[i])
               after  == Post(log[i + 1])
               src    == Source(log[i])
               amount == Amount(log[i])
           IN  /\ log[i + 1].result = "ok"
               /\ log[i].frame.writes = <<Clearing, src>>
               /\ log[i + 1].frame.writes = <<Clearing, src>>
               /\ after[src].balance = before[src].balance - 2 * amount
               /\ src # Clearing =>
                    after[Clearing].balance = before[Clearing].balance + 2 * amount

C13_Witness ==
    \E i \in DOMAIN log :
        /\ i + 1 \in DOMAIN log
        /\ log[i].frame.op = "initiate" /\ log[i + 1].frame.op = "initiate"
        /\ log[i].frame.given.from.k = "id" /\ log[i + 1].frame.given.from.k = "id"
        /\ log[i].result = "ok" /\ log[i + 1].result = "ok"
        /\ Source(log[i]) # Clearing
        /\ Pre(log[i])[Source(log[i])].balance >= 2 * Amount(log[i])
        /\ Post(log[i + 1])[Clearing].balance
             = Pre(log[i])[Clearing].balance + 2 * Amount(log[i])

\* C14: when completeTransaction is called twice in sequence for one
\* transaction whose destination is referenced by id, and the first call
\* succeeds, the second succeeds too: each call writes the clearing account
\* and then the destination, and for a destination other than the clearing
\* account the clearing account ends at its balance before the first call
\* minus twice the amount and the destination at its balance plus twice the
\* amount.
C14_CompletionTwice ==
    \A i \in DOMAIN log :
        (/\ i + 1 \in DOMAIN log
         /\ log[i].frame.op = "complete" /\ log[i + 1].frame.op = "complete"
         /\ log[i + 1].frame.tx = log[i].frame.tx
         /\ log[i].frame.given.to.k = "id" /\ log[i + 1].frame.given.to.k = "id"
         /\ log[i].result = "ok")
        => LET before == Pre(log[i])
               after  == Post(log[i + 1])
               dst    == log[i].frame.given.to.id
               amount == Amount(log[i])
           IN  /\ log[i + 1].result = "ok"
               /\ log[i].frame.writes = <<Clearing, dst>>
               /\ log[i + 1].frame.writes = <<Clearing, dst>>
               /\ dst # Clearing =>
                    /\ after[Clearing].balance = before[Clearing].balance - 2 * amount
                    /\ after[dst].balance = before[dst].balance + 2 * amount

C14_Witness ==
    \E i \in DOMAIN log :
        /\ i + 1 \in DOMAIN log
        /\ log[i].frame.op = "complete" /\ log[i + 1].frame.op = "complete"
        /\ log[i].frame.given.to.k = "id" /\ log[i + 1].frame.given.to.k = "id"
        /\ log[i].result = "ok" /\ log[i + 1].result = "ok"
        /\ log[i].frame.given.to.id # Clearing
        /\ Post(log[i + 1])[log[i].frame.given.to.id].balance
             = Pre(log[i])[log[i].frame.given.to.id].balance + 2 * Amount(log[i])

\* C15: the only status the engine writes is rejected: a successful
\* initiation and every completion leave the stored status of the
\* transaction as it was before the call, and a call that changes it is an
\* initiation that rejects and sets it to rejected.
C15_StatusWrites ==
    \A e \in Entries :
        LET before == e.frame.pre.transactions[e.frame.tx].status
            after  == e.transactions[e.frame.tx].status
        IN  /\ e.frame.op = "complete" \/ e.result = "ok" => after = before
            /\ after # before =>
                 /\ after = "rejected"
                 /\ e.frame.op = "initiate" /\ e.result = "rejected"

C15_Witness ==
    /\ \E e \in Initiations :
         e.result = "ok" /\ e.transactions[e.frame.tx].status = "requested"
    /\ \E e \in Completions :
         e.result = "ok" /\ e.transactions[e.frame.tx].status = "requested"
    /\ \E e \in Initiations :
         /\ e.result = "rejected"
         /\ e.frame.pre.transactions[e.frame.tx].status = "requested"
         /\ e.transactions[e.frame.tx].status = "rejected"

\* a lookup of initiateTransaction fails: the source or the receiver does
\* not resolve, or the transaction passes the rejection test and the
\* clearing account cannot be found
LookupFails(e) ==
    \/ ~SourceResolvable(e)
    \/ ~ReceiverResolvable(e)
    \/ ~RejectionCase(e) /\ ClearingMissing(e)

\* C16: every initiation ends as a success, as a rejection returned to the
\* caller or as a fatal error; it is a rejection exactly when source and
\* receiver resolve and the rejection test fails the transaction, and a
\* fatal error exactly when a lookup fails, so a rejection is never reported
\* as a fatal error nor a failed lookup as a rejection.
C16_Outcomes ==
    \A e \in Initiations :
        /\ e.result \in {"ok", "rejected", "fatal"}
        /\ e.result = "rejected" <=>
             SourceResolvable(e) /\ ReceiverResolvable(e) /\ RejectionCase(e)
        /\ e.result = "fatal" <=> LookupFails(e)

\* an underfunded transaction is rejected, not failed, in a store where the
\* lookup of the clearing account would fail
C16_Witness ==
    \E e \in Initiations :
        /\ e.result = "rejected"
        /\ ClearingMissing(e)
        /\ SourceBalance(e) < Amount(e)
        /\ e.transactions[e.frame.tx].status = "rejected"

\* C17: a successful initiation makes exactly two balance writes, the
\* credit of the clearing account and then the debit of the source; an
\* initiation that ends between the two leaves the clearing account at its
\* balance plus amount and every other account, the source among them, as
\* it was; and the source is never debited while the clearing account is
\* not credited: not while the call runs, not when it has ended.
C17_CreditBeforeDebit ==
    /\ \A e \in Initiations :
         LET src == Source(e)
             credited == Post(e)[Clearing].balance = Pre(e)[Clearing].balance + Amount(e)
         IN  /\ e.result = "ok" => e.frame.writes = <<Clearing, src>>
             /\ e.result = "aborted" /\ e.frame.pc = "i_debit" =>
                  /\ e.frame.writes = <<Clearing>>
                  /\ credited
                  /\ \A a \in AccIds \ {Clearing} : Post(e)[a] = Pre(e)[a]
             /\ Post(e)[src] # Pre(e)[src] => credited
    /\ \A c \in Frames :
         call[c].op = "initiate" =>
             LET src == call[c].given.from.id
             IN  /\ accounts[src] = call[c].pre.accounts[src]
                 /\ call[c].writes \in {<<>>, <<Clearing>>}

C17_Witness ==
    \E e \in Initiations :
        /\ e.result = "aborted" /\ e.frame.pc = "i_debit"
        /\ Post(e)[Clearing].balance = Pre(e)[Clearing].balance + Amount(e)
        /\ Post(e)[Source(e)] = Pre(e)[Source(e)]
        /\ Source(e) # Clearing

\* C18: a successful completion makes exactly two balance writes, the debit
\* of the clearing account and then the credit of the destination; a
\* completion that ends after the debit leaves the clearing account at its
\* balance minus amount and every other account, the destination among
\* them, as it was; no call that wrote the debit ends with the clearing
\* balance restored.
C18_DebitBeforeCredit ==
    /\ \A e \in Completions :
         LET debited == Post(e)[Clearing].balance = Pre(e)[Clearing].balance - Amount(e)
         IN  /\ e.result = "ok" => e.frame.writes = <<Clearing, e.frame.to.id>>
             /\ e.result = "aborted" /\ e.frame.pc = "c_credit" =>
                  /\ e.frame.writes = <<Clearing>>
                  /\ debited
                  /\ \A a \in AccIds \ {Clearing} : Post(e)[a] = Pre(e)[a]
             /\ e.frame.writes # <<>> /\ e.frame.to.id # Clearing => debited
    /\ \A c \in Frames :
         call[c].op = "complete" =>
             /\ call[c].writes \in {<<>>, <<Clearing>>}
             /\ call[c].to.k # "none" /\ call[c].to.id # Clearing =>
                  accounts[call[c].to.id] = call[c].pre.accounts[call[c].to.id]

C18_Witness ==
    \E e \in Completions :
        /\ e.result = "aborted" /\ e.frame.pc = "c_credit"
        /\ Post(e)[Clearing].balance = Pre(e)[Clearing].balance - Amount(e)
        /\ Post(e)[e.frame.to.id] = Pre(e)[e.frame.to.id]
        /\ e.frame.to.id # Clearing

\* two initiations have returned success and nothing else has been called
TwoInitiated ==
    /\ NoneRunning
    /\ Len(log) = 2
    /\ \A i \in DOMAIN log : log[i].frame.op = "initiate" /\ log[i].result = "ok"

\* both transactions have been initiated and completed with success
TwoCompleted ==
    /\ NoneRunning
    /\ Len(log) = 4
    /\ \A i \in DOMAIN log : log[i].result = "ok"

CompletionIndex(t) ==
    CHOOSE i \in DOMAIN log : log[i].frame.op = "complete" /\ log[i].frame.tx = t

\* C19: of two successful initiations that read the same balance of the
\* clearing account, only the credit written last remains: the clearing
\* account ends at that balance plus one of the two amounts, while each of
\* two different sources is debited; when the reads differ both credits
\* remain.  Likewise of two successful completions that read the same
\* clearing balance only one debit remains, while each of two different
\* destinations that no initiation debits is credited.
C19_ClearingRace ==
    /\ TwoInitiated =>
         LET e1 == log[1]
             e2 == log[2]
             A  == e1.frame.adminAccount.balance
         IN  /\ IF e2.frame.adminAccount.balance = A
                THEN accounts[Clearing].balance \in {A + Amount(e1), A + Amount(e2)}
                ELSE accounts[Clearing].balance
                       = CreateBalance + Amount(e1) + Amount(e2)
             /\ Source(e1) # Source(e2) =>
                  /\ accounts[Source(e1)].balance = e1.frame.from.balance - Amount(e1)
                  /\ accounts[Source(e2)].balance = e2.frame.from.balance - Amount(e2)
    /\ TwoCompleted =>
         LET c1 == log[CompletionIndex("t1")]
             c2 == log[CompletionIndex("t2")]
             A  == c1.frame.adminAccount.balance
         IN  /\ c2.frame.adminAccount.balance = A =>
                  accounts[Clearing].balance \in {A - Amount(c1), A - Amount(c2)}
             /\ (/\ c1.frame.to.id # c2.frame.to.id
                 /\ {c1.frame.to.id, c2.frame.to.id} \cap {Source(c1), Source(c2)} = {})
                => /\ accounts[c1.frame.to.id].balance = CreateBalance + Amount(c1)
                   /\ accounts[c2.frame.to.id].balance = CreateBalance + Amount(c2)

\* both transactions by id from different sources to different
\* destinations: the two initiations raced and left one credit, then the two
\* completions raced and left one debit
C19_Witness ==
    /\ TwoCompleted
    /\ \A i \in {1, 2} : log[i].frame.op = "initiate" /\ log[i].frame.given.from.k = "id"
    /\ Source(log[1]) # Source(log[2])
    /\ Amount(log[1]) # Amount(log[2])
    /\ log[1].frame.adminAccount.balance = log[2].frame.adminAccount.balance
    /\ log[2].accounts[Clearing].balance = CreateBalance + Amount(log[2])
    /\ \A i \in {1, 2} :
         log[2].accounts[Source(log[i])].balance = CreateBalance - Amount(log[i])
    /\ \A i \in {3, 4} : log[i].frame.pre.accounts = log[2].accounts
    /\ log[3].frame.to.id # log[4].frame.to.id
    /\ accounts[Clearing].balance = log[2].accounts[Clearing].balance - Amount(log[4])
    /\ \A i \in {3, 4} :
         accounts[log[i].frame.to.id].balance = CreateBalance + Amount(log[i])

\* the last call to end threw
Threw(c) == call'[c] = IdleFrame /\ log' # log /\ log'[Len(log')].result = "fatal"

\* C20: the steps that are calls of getInstance leave accounts, users and
\* transactions as they are; handed a record they return that record,
\* whatever the store holds, and handed an id they return the document the
\* store holds under that id, or throw when there is none.
C20_GetInstanceReadOnly ==
    [][\A c \in Frames :
         LET f == call[c]
         IN  f.pc \in {"i_from", "i_receiver", "c_to"} /\ call'[c] # f =>
               /\ accounts' = accounts /\ users' = users /\ transactions' = transactions
               /\ f.pc = "i_from" =>
                    LET ref == obj[f.tx].from
                    IN  IF ref.k = "id"
                        THEN IF accounts[ref.id].exists
                             THEN call'[c].from = RecRef(ref.id, accounts[ref.id].balance)
                             ELSE Threw(c)
                        ELSE call'[c].from = ref
               /\ f.pc = "i_receiver" =>
                    LET ref == obj[f.tx].receiver
                    IN  IF ref.k = "id"
                        THEN IF users[ref.id].exists
                             THEN /\ call'[c].receiver.id = ref.id
                                  /\ call'[c].receiver.k = "rec"
                             ELSE Threw(c)
                        ELSE call'[c].receiver = ref
               /\ f.pc = "c_to" =>
                    LET ref == obj[f.tx].to
                    IN  IF ref.k = "id"
                        THEN IF accounts[ref.id].exists
                             THEN call'[c].to = RecRef(ref.id, accounts[ref.id].balance)
                             ELSE Threw(c)
                        ELSE ref.k = "rec" => call'[c].to = ref
      ]_vars

\* a call holds the record it was handed although the store has moved on
C20_Witness ==
    \E c \in Frames :
        /\ call[c].pc = "i_receiver"
        /\ obj[call[c].tx].from.k = "rec"
        /\ call[c].from = obj[call[c].tx].from
        /\ accounts[call[c].from.id].balance # call[c].from.balance

RECURSIVE SumFrom(_, _)
SumFrom(store, i) ==
    IF i > Len(AccOrder) THEN 0
    ELSE (IF store[AccOrder[i]].exists THEN store[AccOrder[i]].balance ELSE 0)
         + SumFrom(store, i + 1)

\* the sum of the balances of all accounts of a store
TotalBalance(store) == SumFrom(store, 1)

\* C21: every initiation and every completion that runs to its end, calls
\* one at a time, leaves the sum of all account balances as it was before
\* the call, whichever accounts are source, destination and clearing account.
C21_SumConserved ==
    \A e \in Entries :
        e.result = "ok" => TotalBalance(Post(e)) = TotalBalance(Pre(e))

\* the stages of two transfers ran as initiate, initiate, complete, complete,
\* all with success, each completion on the object its initiation left
StagesInterleaved ==
    /\ Len(log) = 4
    /\ \A i \in DOMAIN log : log[i].result = "ok"
    /\ log[1].frame.op = "initiate" /\ log[2].frame.op = "initiate"
    /\ log[3].frame.op = "complete" /\ log[4].frame.op = "complete"
    /\ log[1].frame.tx # log[2].frame.tx
    /\ log[3].frame.tx = log[1].frame.tx /\ log[4].frame.tx = log[2].frame.tx
    /\ log[3].frame.given = log[1].obj /\ log[4].frame.given = log[2].obj

\* C22: when the stages of two transfers to one destination account run one
\* call at a time as initiate, initiate, complete, complete, the destination
\* ends at its balance before the transfers plus both amounts, and the sum
\* of all balances at its value before the transfers.
C22_SameDestination ==
    StagesInterleaved /\ log[1].frame.to.id = log[2].frame.to.id =>
        LET dst    == log[1].frame.to.id
            before == Pre(log[1])
        IN  /\ accounts[dst].balance
                 = before[dst].balance + Amount(log[1]) + Amount(log[2])
            /\ TotalBalance(accounts) = TotalBalance(before)

\* C23: an initiation succeeds only when the balance the store holds for the
\* source at the time of the call is at least amount, and leaves the source
\* at that stored balance minus amount, whether transaction.from is a bare
\* id or a populated record.
C23_StoredSufficiency ==
    \A e \in Initiations :
        e.result = "ok" =>
            /\ Pre(e)[Source(e)].balance >= Amount(e)
            /\ Post(e)[Source(e)].balance = Pre(e)[Source(e)].balance - Amount(e)

\* transaction t has been initiated with success and not yet completed
Pending(t) ==
    /\ \E e \in Initiations : e.frame.tx = t /\ e.result = "ok"
    /\ \A e \in Completions : e.frame.tx # t

RECURSIVE PendingAmount(_)
PendingAmount(S) ==
    IF S = {} THEN 0
    ELSE LET t == CHOOSE x \in S : TRUE
         IN  (IF Pending(t) THEN transactions[t].amount ELSE 0)
             + PendingAmount(S \ {t})

\* C24: with calls in flight together, every transaction initiated once and
\* completed once after its initiation succeeded, in every state with no
\* call running the clearing account holds at least the sum of the amounts
\* of the transactions initiated and not yet completed.
C24_Reservation ==
    NoneRunning => accounts[Clearing].balance >= PendingAmount(TxIds)

\* only initiateTransaction has been called
InitiationsAlone ==
    /\ Completions = {}
    /\ \A c \in Frames : call[c].op # "complete"

\* C25: with initiations in flight together and no completion called,
\* starting from non-negative balances and with positive amounts, no account
\* balance in the store is negative in any state, between the writes of the
\* calls included.
C25_NoNegativeWrite ==
    InitiationsAlone => \A a \in AccIds : accounts[a].balance >= 0

\* two initiations on one source were in flight together, one took the
\* whole balance and a balance of 0 was written
C25_Witness ==
    /\ InitiationsAlone
    /\ \E p \in InitiationPairs :
         /\ Source(log[p[1]]) = Source(log[p[2]])
         /\ log[p[1]].frame.given.from.k = "id" /\ log[p[2]].frame.given.from.k = "id"
         /\ log[p[2]].frame.pre.accounts = log[p[1]].frame.pre.accounts
         /\ Amount(log[p[1]]) + Amount(log[p[2]]) > log[p[1]].frame.from.balance
    /\ \E a \in AccIds : accounts[a].balance = 0

\* C26: an initiation that does not return success leaves transaction.to
\* unset on the object it was given, and a completion changes an account
\* balance only for a transaction of which an earlier initiation returned
\* success.
C26_ToOnlyOnSuccess ==
    /\ \A e \in Initiations :
         e.result # "ok" /\ e.frame.given.to.k = "none" => e.obj.to.k = "none"
    /\ \A i \in DOMAIN log :
         log[i].frame.op = "complete" /\ Post(log[i]) # Pre(log[i]) =>
             \E j \in 1..(i - 1) :
                 /\ log[j].frame.op = "initiate" /\ log[j].result = "ok"
                 /\ log[j].frame.tx = log[i].frame.tx

\* C27: a call of initiateTransaction or completeTransaction for a
\* transaction whose stored status is rejected when the call begins changes
\* no account balance.
C27_RejectedTerminal ==
    \A e \in Entries :
        e.frame.pre.transactions[e.frame.tx].status = "rejected" => Post(e) = Pre(e)

\* C28: whatever amount the transaction document carries, zero and negative
\* amounts included, an initiation that returns success leaves the source
\* with no more than it held before the call and the clearing account with
\* no less.
C28_NoReverseFlow ==
    \A e \in Initiations :
        e.result = "ok" =>
            /\ Post(e)[Source(e)].balance <= Pre(e)[Source(e)].balance
            /\ Post(e)[Clearing].balance >= Pre(e)[Clearing].balance

====
